---- MODULE Spec2Model ----
(***************************************************************************)
(* Model of the round-trip enumeration engines of Take-Off-Tracker:       *)
(*   scrape_round_trip_data_dynamic  (web-scraper/flight_scraper.py)      *)
(*   scrape_round_trip_data          (web-scraper/flight_scraper_proxy.py)*)
(* together with the field extractor both of them use.  The browser page  *)
(* is the environment: every page call either returns, raises a           *)
(* Playwright TimeoutError or raises another Playwright Error, and what a *)
(* query returns is chosen by the environment at the time of the call.    *)
(***************************************************************************)
EXTENDS Integers, Sequences, FiniteSets, TLC

(***************************************************************************)
(* Bounds of the model.                                                    *)
(***************************************************************************)
\* the longest outbound list the page serves
MaxOut == 3
\* the most return elements one reveal shows
MaxRet == 2
\* the number of times scrape_flight_info is applied to one element
MaxCalls == 2
\* the longest outbound list at the start of a run whose termination is checked
LiveMaxOut == 2

(***************************************************************************)
(* Program constants.                                                      *)
(***************************************************************************)
\* min(len(outbound_flights_list), 15)
OutboundLimit == 15
\* if i > 0 and i % 5 == 0
RefreshEvery == 5

SENTINEL == "N/A"

(***************************************************************************)
(* Elements.  A flight element is a sequence of sub-elements in document   *)
(* order; a sub-element has the selector it matches, its aria-label, its   *)
(* inner text, and is stale when reading it raises (detached node).        *)
(***************************************************************************)
NoAria == ""

Sub(sel, aria, text) == [sel |-> sel, aria |-> aria, text |-> text, stale |-> FALSE]

StaleSub(sel, aria) == [sel |-> sel, aria |-> aria, text |-> "", stale |-> TRUE]

\* the eight extractions of scrape_flight_info, in the order of the code
FieldSpec ==
  << [key |-> "Departure Time",      selector |-> "span",                   aria_label |-> "Departure time"],
     [key |-> "Arrival Time",        selector |-> "span",                   aria_label |-> "Arrival time"],
     [key |-> "Airline Company",     selector |-> ".sSHqwe",                aria_label |-> NoAria],
     [key |-> "Flight Duration",     selector |-> "div.gvkrdb",             aria_label |-> NoAria],
     [key |-> "Stops",               selector |-> "div.EfT7Ae span.ogfYpf", aria_label |-> NoAria],
     [key |-> "Price",               selector |-> "div.FpEdX span",         aria_label |-> NoAria],
     [key |-> "co2 emissions",       selector |-> "div.O7CXue",             aria_label |-> NoAria],
     [key |-> "emissions variation", selector |-> "div.N6PNV",              aria_label |-> NoAria] >>

Keys == { FieldSpec[k].key : k \in 1..Len(FieldSpec) }

\* a complete flight element
FullElement ==
  << Sub("span", "Departure time", "10:00 AM"),
     Sub("span", "Arrival time", "1:05 PM"),
     Sub(".sSHqwe", NoAria, "JetBlue"),
     Sub("div.gvkrdb", NoAria, "4 hr 5 min"),
     Sub("div.EfT7Ae span.ogfYpf", NoAria, "Nonstop"),
     Sub("div.FpEdX span", NoAria, "$412"),
     Sub("div.O7CXue", NoAria, "310 kg CO2e"),
     Sub("div.N6PNV", NoAria, "-12% emissions") >>

\* the same flight without its emissions-variation node: one field differs
NoVariationElement == SubSeq(FullElement, 1, 7)

\* the same flight whose Stops node is detached: reading it raises
StaleElement == [FullElement EXCEPT ![5] = StaleSub("div.EfT7Ae span.ogfYpf", NoAria)]

\* the element snapshots the page serves, by name
Snapshot(e) ==
  CASE e = "full"  -> FullElement
    [] e = "novar" -> NoVariationElement
    [] e = "stale" -> StaleElement

\* what an outbound candidate can be when it is read
OutElems == {"full", "stale"}
\* what a revealed element can be when it is read
RetElems == {"full", "novar", "stale"}

(***************************************************************************)
(* Field Extractor.                                                        *)
(***************************************************************************)
\* variant of query_selector: the aria-label part of the selector is dropped
query_selector_AnyLabel(flight, selector, aria_label) ==
  LET hits == { n \in 1..Len(flight) : flight[n].sel = selector }
  IN IF hits = {} THEN 0 ELSE CHOOSE n \in hits : \A m \in hits : n <= m

\* flight.query_selector(selector[aria-label*=...]): index of the first match, 0 for None
query_selector(flight, selector, aria_label) ==
  LET hits == { n \in 1..Len(flight) :
                  /\ flight[n].sel = selector
                  /\ (aria_label = NoAria \/ flight[n].aria = aria_label) }
  IN IF hits = {} THEN 0 ELSE CHOOSE n \in hits : \A m \in hits : n <= m

\* extract_flight_element_text: [raised, text]
extract_flight_element_text(flight, selector, aria_label) ==
  LET n == query_selector(flight, selector, aria_label)
  IN IF n = 0 THEN [raised |-> FALSE, text |-> SENTINEL]
     ELSE IF flight[n].stale THEN [raised |-> TRUE, text |-> ""]
     ELSE [raised |-> FALSE, text |-> flight[n].text]

NoInfo == [k \in Keys |-> ""]

\* scrape_flight_info: [raised, info]; the first raising extraction propagates
scrape_flight_info(flight) ==
  LET got == [k \in 1..Len(FieldSpec) |->
                extract_flight_element_text(flight, FieldSpec[k].selector, FieldSpec[k].aria_label)]
  IN IF \E k \in 1..Len(FieldSpec) : got[k].raised
     THEN [raised |-> TRUE, info |-> NoInfo]
     ELSE [raised |-> FALSE,
           info |-> [key \in Keys |->
                      got[CHOOSE k \in 1..Len(FieldSpec) : FieldSpec[k].key = key].text]]

(***************************************************************************)
(* State.                                                                  *)
(***************************************************************************)
VARIABLES
  engine,                  \* "dynamic" (flight_scraper.py) or "proxy" (flight_scraper_proxy.py)
  pc,                      \* position in the engine's code
  i,                       \* the for loop's index
  initial_outbound_count,  \* range of the for loop: number of candidates taken at the start
  outbound_element,        \* current_flights[i] of the fresh list
  outbound_info,           \* record captured for the current index
  return_elements,         \* elements taken as the revealed return flights
  return_flights_data,     \* records collected for the current index
  final_data,              \* the accumulated result
  outcome,                 \* "running", "returned" (a list reached the caller) or "raised"
  result,                  \* the list the caller received
  pending_exception,       \* the call whose exception is propagating, "none" otherwise
  browser_closed,          \* browser.close() has completed
  playwright_stopped,      \* playwright.stop() has completed
  found_count,             \* history: length of the outbound list found at the start
  final_idx,               \* history: for each option of final_data, the index that appended it
  idx_log,                 \* history: what happened to each index the loop has gone through
  reports,                 \* history: the messages printed about skips and failures
  reset_failures,          \* history: number of resets whose reloads both raised
  playwright_started,      \* async_playwright().start() has completed
  browser_launched,        \* chromium.launch() has completed
  flight,                  \* the element handed to scrape_flight_info, as the page holds it
  flight_before,           \* history: that element before the first extraction
  records,                 \* the records scrape_flight_info has returned for flight
  reloads,                 \* history: page.goto calls issued while the current index is processed
  reveal_open,             \* history: a reveal click was issued and no reload or dismiss since
  list_fresh,              \* history: the list in hand was queried after the last click or reload
  close_control,           \* history: what a dismiss of the return view would do for this index
  activations,             \* history: the clicks issued on the current index's element, by mode
  grown,                   \* history: the reveal wait timed out on a page that shows new flight elements
  field,                   \* the date field dynamic_form_fill is setting: "Departure" or "Return"
  attempt,                 \* the for loop's attempt number while a date field is set
  field_value,             \* what each date field of the page holds
  field_log,               \* history: for each date field, what each attempt left and read back
  typings,                 \* history: for each date field, how often the date was typed into it
  search_clicked,          \* history: the Search button was clicked
  fill_result              \* what dynamic_form_fill returned, "none" before

vars == << engine, pc, i, initial_outbound_count, outbound_element, outbound_info, return_elements,
           return_flights_data, final_data, outcome, result, pending_exception,
           browser_closed, playwright_stopped, found_count, final_idx, idx_log, reports, reset_failures,
           playwright_started, browser_launched, flight, flight_before, records,
           reloads, reveal_open, list_fresh, close_control, activations, grown,
           field, attempt, field_value, field_log, typings, search_clicked, fill_result >>

\* the state of dynamic_form_fill run on its own
form_vars == << field, attempt, field_value, field_log, typings, search_clicked, fill_result >>

\* the histories of the reveal of the current index
reveal_vars == << activations, grown >>

\* the handles setup_browser acquires
run_vars == << playwright_started, browser_launched >>

\* the state of the field extractor run on its own
extractor_vars == << flight, flight_before, records >>

\* the histories of the page's resets
reset_vars == << reloads, reveal_open, list_fresh, close_control >>

\* how a page call can end: it returns, raises TimeoutError, or raises another Error
CallOutcomes == {"ok", "timeout", "error"}

Min(a, b) == IF a <= b THEN a ELSE b

\* all sequences over S of length 0..n
RECURSIVE SeqsUpTo(_, _)
SeqsUpTo(S, n) ==
  IF n = 0 THEN { << >> }
  ELSE LET shorter == SeqsUpTo(S, n - 1)
       IN shorter \cup { Append(s, x) : s \in { t \in shorter : Len(t) = n - 1 }, x \in S }

\* an element handle: the snapshot it reads as, and where it came from
El(snap, origin) == [snap |-> snap, origin |-> origin]

Handles(snaps, origin) == [k \in 1..Len(snaps) |-> El(snaps[k], origin)]

NoElement == El("none", "none")

\* the lists a reveal can show
RetLists == SeqsUpTo(RetElems, MaxRet)

\* Python's lst[n:]
SliceFrom(lst, n) == SubSeq(lst, n + 1, Len(lst))

NoIndex == -1

Report(idx, kind) == [idx |-> idx, kind |-> kind]

\* history entry of one index
Entry(kind, revealed, dups, fails) ==
  [kind |-> kind, revealed |-> revealed, dups |-> dups, fails |-> fails]

\* n copies of a report
Copies(n, rep) == [k \in 1..n |-> rep]

\* the dictionary appended to final_data
Option(out_info, returns) == [OutboundFlight |-> out_info, ReturnFlights |-> returns]

\* the two date fields of the search form
DateFields == {"Departure", "Return"}

\* the state of the engines before a run
InitEngines ==
  /\ i = 0
  /\ initial_outbound_count = 0
  /\ outbound_element = NoElement
  /\ outbound_info = NoInfo
  /\ return_elements = << >>
  /\ return_flights_data = << >>
  /\ final_data = << >>
  /\ outcome = "running"
  /\ result = << >>
  /\ pending_exception = "none"
  /\ browser_closed = FALSE
  /\ playwright_stopped = FALSE
  /\ found_count = 0
  /\ final_idx = << >>
  /\ idx_log = << >>
  /\ reports = << >>
  /\ reset_failures = 0
  /\ playwright_started = FALSE
  /\ browser_launched = FALSE
  /\ records = << >>
  /\ reloads = 0
  /\ reveal_open = FALSE
  /\ list_fresh = FALSE
  /\ close_control = "n/a"
  /\ activations = << >>
  /\ grown = FALSE
  /\ field = "Departure"
  /\ attempt = 0
  /\ field_value = [f \in DateFields |-> ""]
  /\ field_log = [f \in DateFields |-> << >>]
  /\ typings = [f \in DateFields |-> 0]
  /\ search_clicked = FALSE
  /\ fill_result = "none"

Init ==
  /\ engine \in {"dynamic", "proxy"}
  /\ pc = "setup"
  /\ flight = << >>
  /\ flight_before = << >>
  /\ InitEngines

(***************************************************************************)
(* setup_browser (both files): start the driver, launch the browser, open  *)
(* a page.  Each of the three calls can raise; nothing is released then.   *)
(***************************************************************************)
SetupOutcomes == {"ok", "start_error", "launch_error", "page_error"}

\* the handles that exist when setup_browser ends with outcome s
setup_browser(s) ==
  [started  |-> s # "start_error",
   launched |-> s \in {"ok", "page_error"}]

\* everything the enumeration engines keep
engine_vars == << i, initial_outbound_count, outbound_element, outbound_info, return_elements,
                  return_flights_data, final_data, found_count, final_idx, idx_log, reports,
                  reset_failures, reset_vars, reveal_vars >>

(***************************************************************************)
(* scrape_complete_round_trip_flights (flight_scraper.py): the run around  *)
(* the dynamic engine.                                                     *)
(***************************************************************************)
\* line 407: playwright, browser, page = await setup_browser(), before the try
RunSetup ==
  /\ engine = "dynamic"
  /\ pc = "setup"
  /\ \E s \in SetupOutcomes :
       /\ playwright_started' = setup_browser(s).started
       /\ browser_launched' = setup_browser(s).launched
       /\ IF s = "ok"
          THEN /\ pc' = "form_fill"
               /\ UNCHANGED pending_exception
          ELSE /\ pc' = "exited"
               /\ pending_exception' = "setup"
  /\ UNCHANGED << engine, extractor_vars, form_vars, engine_vars, outcome, result, browser_closed, playwright_stopped >>

\* lines 411-417: dynamic_form_fill returns True or False and never raises; the
\* engine runs only after True, otherwise flight_data stays []
RunFormFill ==
  /\ engine = "dynamic"
  /\ pc = "form_fill"
  /\ \E success \in BOOLEAN : pc' = IF success THEN "start" ELSE "r_finally"
  /\ UNCHANGED << engine, run_vars, extractor_vars, form_vars, engine_vars, outcome, result,
                  browser_closed, playwright_stopped, pending_exception >>

\* lines 421-425: finally: the inspection wait, browser.close(), playwright.stop();
\* the first of them that raises ends the block
RunFinally ==
  /\ engine = "dynamic"
  /\ pc \in {"done", "r_finally"}
  /\ \E wait \in {"ok", "error"}, close \in {"ok", "error"}, stop \in {"ok", "error"} :
       /\ browser_closed' = (wait = "ok" /\ close = "ok")
       /\ playwright_stopped' = (wait = "ok" /\ close = "ok" /\ stop = "ok")
       /\ pending_exception' =
            IF wait # "ok" THEN "inspection_wait"
            ELSE IF close # "ok" THEN "browser_close"
            ELSE IF stop # "ok" THEN "playwright_stop"
            ELSE pending_exception
  /\ pc' = "exited"
  /\ UNCHANGED << engine, run_vars, extractor_vars, form_vars, engine_vars, outcome, result >>

(***************************************************************************)
(* scrape_round_trip_data_dynamic (flight_scraper.py).                     *)
(***************************************************************************)
\* The environment of a run.  On a list of at most MaxOut candidates every page call
\* can return or raise and every query can return any list within the bounds.  The
\* one longer list, of OutboundLimit + 1 candidates, is served by a page on which
\* nothing fails: every call returns, the list keeps its length, every candidate reads
\* completely and every reveal shows one return element that differs from it, inside
\* the container, or for the last index processed possibly outside it.
LongCount == OutboundLimit + 1

LongRun == found_count > MaxOut

\* outcomes of a call that can time out
PageCalls == IF LongRun THEN {"ok"} ELSE CallOutcomes

\* outcomes of a call that cannot time out
PageActions == IF LongRun THEN {"ok"} ELSE {"ok", "error"}

\* lengths of the outbound list at a fresh query
ListLengths == IF LongRun THEN {found_count} ELSE 0..MaxOut

\* what current_flights[i] reads as
OutboundSnapshots == IF LongRun THEN {"full"} ELSE OutElems

\* the flight elements inside the return container
ContainerLists ==
  IF ~LongRun THEN RetLists
  ELSE IF i = initial_outbound_count - 1 THEN { << "novar" >>, << >> }
  ELSE { << "novar" >> }

\* the flight elements a reveal adds to the page outside the container
AddedLists == IF LongRun THEN { << "novar" >> } ELSE RetLists

\* what the outbound elements other than current_flights[i] read as: the same
\* flight once more, or another flight
OtherOutbound == IF LongRun THEN {"novar"} ELSE {"full", "novar"}

\* the variables of one iteration that only the capture steps write
iteration_vars == << outbound_element, outbound_info, return_elements, return_flights_data >>

\* what the caller sees
caller_vars == << outcome, result, browser_closed, playwright_stopped >>

\* how the engine clicks the outbound element: click(force=True) in
\* flight_scraper.py, click() in flight_scraper_proxy.py
ClickMode == IF engine = "dynamic" THEN "forced" ELSE "plain"

\* `continue`: the for loop takes the next index
Continue ==
  /\ i' = i + 1
  /\ pc' = "d_for"

\* an exception leaves the body of the for loop towards `except Exception` (line 378);
\* logged tells whether the index already has its history entry
DynRaise(call, logged) ==
  /\ pending_exception' = call
  /\ idx_log' = IF logged THEN idx_log ELSE Append(idx_log, Entry("error", 0, 0, 0))
  /\ pc' = "d_except"
  /\ UNCHANGED i

\* lines 279-290: the initial wait, the first query, the count and the base URL
DynInitialWait ==
  /\ engine = "dynamic"
  /\ pc = "start"
  /\ \E w \in CallOutcomes, n \in (0..MaxOut) \cup {LongCount} :
       IF w = "ok"
       THEN /\ found_count' = n
            /\ initial_outbound_count' = Min(n, OutboundLimit)
            /\ pc' = "d_for"
            /\ list_fresh' = TRUE
            /\ UNCHANGED pending_exception
       ELSE /\ pending_exception' = "initial_wait"
            /\ pc' = "d_outer_except"
            /\ UNCHANGED << found_count, initial_outbound_count, list_fresh >>
  /\ UNCHANGED << engine, run_vars, extractor_vars, form_vars, reveal_vars, reloads, reveal_open, close_control, reset_failures, i, iteration_vars, final_data, caller_vars, final_idx, idx_log, reports >>

\* variant of DynFor: the loop ends one index early
DynFor_OffByOne ==
  /\ engine = "dynamic"
  /\ pc = "d_for"
  /\ pc' = IF i < initial_outbound_count - 1 THEN "d_iter" ELSE "d_return"
  /\ outbound_element' = NoElement
  /\ outbound_info' = NoInfo
  /\ return_elements' = << >>
  /\ return_flights_data' = << >>
  /\ reloads' = 0
  /\ close_control' = "n/a"
  /\ activations' = << >>
  /\ grown' = FALSE
  /\ UNCHANGED << reveal_open, list_fresh >>
  /\ UNCHANGED << engine, run_vars, extractor_vars, form_vars, reset_failures, i, initial_outbound_count, final_data, caller_vars,
                  pending_exception, found_count, final_idx, idx_log, reports >>

\* line 293: for i in range(initial_outbound_count).  The locals of the loop body
\* are written before they are read in every iteration; the model clears them here.
DynFor ==
  /\ engine = "dynamic"
  /\ pc = "d_for"
  /\ pc' = IF i < initial_outbound_count THEN "d_iter" ELSE "d_return"
  /\ outbound_element' = NoElement
  /\ outbound_info' = NoInfo
  /\ return_elements' = << >>
  /\ return_flights_data' = << >>
  /\ reloads' = 0
  /\ close_control' = "n/a"
  /\ activations' = << >>
  /\ grown' = FALSE
  /\ UNCHANGED << reveal_open, list_fresh >>
  /\ UNCHANGED << engine, run_vars, extractor_vars, form_vars, reset_failures, i, initial_outbound_count, final_data, caller_vars,
                  pending_exception, found_count, final_idx, idx_log, reports >>

\* line 298: if i > 0 and i % 5 == 0
Refreshing == i > 0 /\ i % RefreshEvery = 0

\* variant of DynIter: the element is taken from the list captured at the start
DynIter_ReuseList ==
  /\ engine = "dynamic"
  /\ pc = "d_iter"
  /\ \E r \in PageCalls, e \in OutboundSnapshots :
       IF Refreshing /\ r # "ok"
       THEN /\ DynRaise("refresh", FALSE)
            /\ list_fresh' = FALSE
            /\ UNCHANGED << outbound_element, reports >>
       ELSE /\ outbound_element' = El(e, "outbound")
            /\ pc' = "d_capture"
            /\ list_fresh' = (list_fresh /\ ~Refreshing)
            /\ UNCHANGED << i, pending_exception, idx_log, reports >>
  /\ reloads' = IF Refreshing THEN reloads + 1 ELSE reloads
  /\ reveal_open' = IF Refreshing THEN FALSE ELSE reveal_open
  /\ UNCHANGED close_control
  /\ UNCHANGED << engine, run_vars, extractor_vars, form_vars, reveal_vars, reset_failures, initial_outbound_count, outbound_info, return_elements,
                  return_flights_data, final_data, caller_vars, found_count, final_idx >>

\* lines 296-311: the periodic refresh, the fresh list, the range check
DynIter ==
  /\ engine = "dynamic"
  /\ pc = "d_iter"
  /\ \E r \in PageCalls, q \in PageActions, n \in ListLengths, e \in OutboundSnapshots :
       IF Refreshing /\ r # "ok"
       THEN /\ DynRaise("refresh", FALSE)
            /\ list_fresh' = FALSE
            /\ UNCHANGED << outbound_element, reports >>
       ELSE IF q # "ok"
       THEN /\ DynRaise("list_query", FALSE)
            /\ list_fresh' = FALSE
            /\ UNCHANGED << outbound_element, reports >>
       ELSE IF i >= n
       THEN /\ reports' = Append(reports, Report(i, "skip"))
            /\ idx_log' = Append(idx_log, Entry("skipped", 0, 0, 0))
            /\ Continue
            /\ list_fresh' = TRUE
            /\ UNCHANGED << outbound_element, pending_exception >>
       ELSE /\ outbound_element' = El(e, "outbound")
            /\ pc' = "d_capture"
            /\ list_fresh' = TRUE
            /\ UNCHANGED << i, pending_exception, idx_log, reports >>
  /\ reloads' = IF Refreshing THEN reloads + 1 ELSE reloads
  /\ reveal_open' = IF Refreshing THEN FALSE ELSE reveal_open
  /\ UNCHANGED close_control
  /\ UNCHANGED << engine, run_vars, extractor_vars, form_vars, reveal_vars, reset_failures, initial_outbound_count, outbound_info, return_elements,
                  return_flights_data, final_data, caller_vars, found_count, final_idx >>

\* variant of DynCapture: the outbound record is not read before the click
DynCapture_Deferred ==
  /\ engine = "dynamic"
  /\ pc = "d_capture"
  /\ \E s \in PageActions :
       IF s # "ok"
       THEN /\ DynRaise("scroll", FALSE)
       ELSE /\ pc' = "d_click"
            /\ UNCHANGED << i, pending_exception, idx_log >>
  /\ UNCHANGED << engine, run_vars, extractor_vars, form_vars, reveal_vars, reset_vars, reset_failures, initial_outbound_count, iteration_vars,
                  final_data, caller_vars, found_count, final_idx, reports >>

\* lines 313-318: scroll to the element, then capture the outbound record
DynCapture ==
  /\ engine = "dynamic"
  /\ pc = "d_capture"
  /\ \E s \in PageActions :
       LET r == scrape_flight_info(Snapshot(outbound_element.snap))
       IN IF s # "ok"
          THEN /\ DynRaise("scroll", FALSE)
               /\ UNCHANGED outbound_info
          ELSE IF r.raised
          THEN /\ DynRaise("extraction", FALSE)
               /\ UNCHANGED outbound_info
          ELSE /\ outbound_info' = r.info
               /\ pc' = "d_click"
               /\ UNCHANGED << i, pending_exception, idx_log >>
  /\ UNCHANGED << engine, run_vars, extractor_vars, form_vars, reveal_vars, reset_vars, reset_failures, initial_outbound_count, outbound_element, return_elements,
                  return_flights_data, final_data, caller_vars, found_count, final_idx, reports >>

\* lines 320-321: outbound_element.click(force=True)
DynClick ==
  /\ engine = "dynamic"
  /\ pc = "d_click"
  /\ \E c \in PageActions :
       IF c = "ok"
       THEN /\ pc' = "d_wait"
            /\ reveal_open' = TRUE
            /\ UNCHANGED << i, pending_exception, idx_log >>
       ELSE /\ DynRaise("click", FALSE)
            /\ UNCHANGED reveal_open
  /\ list_fresh' = FALSE
  /\ activations' = Append(activations, ClickMode)
  /\ UNCHANGED << reloads, close_control, grown >>
  /\ UNCHANGED << engine, run_vars, extractor_vars, form_vars, reset_failures, initial_outbound_count, iteration_vars, final_data, caller_vars,
                  found_count, final_idx, reports >>

\* variant of DynWaitReveal: a timed-out index leaves a pair without returns
DynWaitReveal_Placeholder ==
  /\ engine = "dynamic"
  /\ pc = "d_wait"
  /\ \E w \in PageCalls :
       CASE w = "ok" ->
              /\ pc' = "d_query_returns"
              /\ UNCHANGED << i, pending_exception, idx_log, reports,
                              final_data, final_idx >>
         [] w = "timeout" ->
              /\ reports' = Append(reports, Report(i, "timeout"))
              /\ idx_log' = Append(idx_log, Entry("timeout", 0, 0, 0))
              /\ final_data' = Append(final_data, Option(outbound_info, << >>))
              /\ final_idx' = Append(final_idx, i)
              /\ Continue
              /\ UNCHANGED pending_exception
         [] w = "error" ->
              /\ DynRaise("reveal_wait", FALSE)
              /\ UNCHANGED << reports, final_data, final_idx >>
  /\ UNCHANGED << engine, run_vars, extractor_vars, form_vars, reset_vars, reveal_vars, reset_failures, initial_outbound_count, iteration_vars, caller_vars, found_count >>

\* variant of DynWaitReveal: after a timeout the wait is started again
DynWaitReveal_WaitAgain ==
  /\ engine = "dynamic"
  /\ pc = "d_wait"
  /\ \E w \in PageCalls :
       CASE w = "ok" ->
              /\ pc' = "d_query_returns"
              /\ UNCHANGED << i, pending_exception, idx_log, reports, grown >>
         [] w = "timeout" ->
              /\ grown' = ~grown
              /\ UNCHANGED << pc, i, pending_exception, idx_log, reports >>
         [] w = "error" ->
              /\ DynRaise("reveal_wait", FALSE)
              /\ UNCHANGED << reports, grown >>
  /\ UNCHANGED activations
  /\ UNCHANGED << engine, run_vars, extractor_vars, form_vars, reset_vars, reset_failures, initial_outbound_count, iteration_vars, final_data, caller_vars,
                  found_count, final_idx >>

\* lines 323-329 and 374-376: the wait for the return container
DynWaitReveal ==
  /\ engine = "dynamic"
  /\ pc = "d_wait"
  /\ \E w \in PageCalls :
       CASE w = "ok" ->
              /\ pc' = "d_query_returns"
              /\ UNCHANGED << i, pending_exception, idx_log, reports, grown >>
         [] w = "timeout" ->
              /\ reports' = Append(reports, Report(i, "timeout"))
              /\ idx_log' = Append(idx_log, Entry("timeout", 0, 0, 0))
              /\ Continue
              /\ \E new_elements \in BOOLEAN : grown' = new_elements
              /\ UNCHANGED pending_exception
         [] w = "error" ->
              /\ DynRaise("reveal_wait", FALSE)
              /\ UNCHANGED << reports, grown >>
  /\ UNCHANGED activations
  /\ UNCHANGED << engine, run_vars, extractor_vars, form_vars, reset_vars, reset_failures, initial_outbound_count, iteration_vars, final_data, caller_vars,
                  found_count, final_idx >>

\* lines 331-339: the return elements inside the container, else every flight
\* element of the page past the first initial_outbound_count ones.  The page then
\* holds n_now outbound elements followed by the new ones.
DynQueryReturns ==
  /\ engine = "dynamic"
  /\ pc = "d_query_returns"
  /\ \E q \in PageActions, inner \in ContainerLists :
       IF q # "ok"
       THEN /\ DynRaise("returns_query", FALSE)
            /\ UNCHANGED return_elements
       ELSE /\ IF inner # << >>
               THEN return_elements' = Handles(inner, "return")
               ELSE \E n_now \in ListLengths, new \in AddedLists, other \in OtherOutbound :
                      return_elements' =
                        SliceFrom([k \in 1..n_now |->
                                     El(IF k = i + 1 THEN outbound_element.snap ELSE other, "outbound")]
                                    \o Handles(new, "return"),
                                  initial_outbound_count)
            /\ pc' = "d_collect"
            /\ UNCHANGED << i, pending_exception, idx_log >>
  /\ UNCHANGED << engine, run_vars, extractor_vars, form_vars, reveal_vars, reset_vars, reset_failures, initial_outbound_count, outbound_element, outbound_info,
                  return_flights_data, final_data, caller_vars, found_count, final_idx, reports >>

\* variant of DynCollectReturns: the comparison with the outbound record is missing
RECURSIVE DynCollectReturns_NoDedup(_, _)
DynCollectReturns_NoDedup(els, out_info) ==
  IF els = << >> THEN << >>
  ELSE LET r == scrape_flight_info(Snapshot(Head(els).snap))
           rest == DynCollectReturns_NoDedup(Tail(els), out_info)
       IN IF r.raised THEN rest ELSE << r.info >> \o rest

\* variant of DynCollectReturns: only the times and the price are compared
RECURSIVE DynCollectReturns_SomeFields(_, _)
DynCollectReturns_SomeFields(els, out_info) ==
  IF els = << >> THEN << >>
  ELSE LET r == scrape_flight_info(Snapshot(Head(els).snap))
           rest == DynCollectReturns_SomeFields(Tail(els), out_info)
           same == \A key \in {"Departure Time", "Arrival Time", "Price"} : r.info[key] = out_info[key]
       IN IF r.raised THEN rest
          ELSE IF ~same THEN << r.info >> \o rest
          ELSE rest

\* lines 341-351: the loop over the return elements; an element whose extraction
\* raises is passed over, a record equal to the outbound record is left out
RECURSIVE DynCollectReturns(_, _)
DynCollectReturns(els, out_info) ==
  IF els = << >> THEN << >>
  ELSE LET r == scrape_flight_info(Snapshot(Head(els).snap))
           rest == DynCollectReturns(Tail(els), out_info)
       IN IF r.raised THEN rest
          ELSE IF r.info # out_info THEN << r.info >> \o rest
          ELSE rest

\* history: the elements of els that read as exactly the record info
Dups(els, info) ==
  { k \in 1..Len(els) :
      LET r == scrape_flight_info(Snapshot(els[k].snap)) IN ~r.raised /\ r.info = info }

\* history: the elements of els whose extraction raises
Fails(els) ==
  { k \in 1..Len(els) : scrape_flight_info(Snapshot(els[k].snap)).raised }

\* variant of DynCollect: the pair is stored without the test of line 354
DynCollect_AlwaysAppend ==
  /\ engine = "dynamic"
  /\ pc = "d_collect"
  /\ LET data == DynCollectReturns(return_elements, outbound_info)
         nfail == Cardinality(Fails(return_elements))
     IN /\ return_flights_data' = data
        /\ final_data' = Append(final_data, Option(outbound_info, data))
        /\ final_idx' = Append(final_idx, i)
        /\ reports' = reports \o Copies(nfail, Report(i, "return_error"))
        /\ idx_log' = Append(idx_log, Entry("revealed", Len(return_elements),
                                            Cardinality(Dups(return_elements, outbound_info)), nfail))
  /\ pc' = "d_reset"
  /\ UNCHANGED << engine, run_vars, extractor_vars, form_vars, reveal_vars, reset_vars, reset_failures, i, initial_outbound_count, outbound_element, outbound_info,
                  return_elements, caller_vars, pending_exception, found_count >>

\* variant of DynCollect: the pair takes the place of the last stored one
DynCollect_ReplaceLast ==
  /\ engine = "dynamic"
  /\ pc = "d_collect"
  /\ LET data == DynCollectReturns(return_elements, outbound_info)
         nfail == Cardinality(Fails(return_elements))
     IN /\ return_flights_data' = data
        /\ IF data # << >>
           THEN /\ final_data' = IF final_data = << >>
                                 THEN << Option(outbound_info, data) >>
                                 ELSE [final_data EXCEPT ![Len(final_data)] = Option(outbound_info, data)]
                /\ final_idx' = IF final_idx = << >>
                                THEN << i >>
                                ELSE [final_idx EXCEPT ![Len(final_idx)] = i]
                /\ reports' = reports \o Copies(nfail, Report(i, "return_error"))
           ELSE /\ UNCHANGED << final_data, final_idx >>
                /\ reports' = reports \o Copies(nfail, Report(i, "return_error"))
                                      \o << Report(i, "no_returns") >>
        /\ idx_log' = Append(idx_log, Entry("revealed", Len(return_elements),
                                            Cardinality(Dups(return_elements, outbound_info)), nfail))
  /\ pc' = "d_reset"
  /\ UNCHANGED << engine, run_vars, extractor_vars, form_vars, reveal_vars, reset_vars, reset_failures, i, initial_outbound_count, outbound_element, outbound_info,
                  return_elements, caller_vars, pending_exception, found_count >>

\* lines 341-361: collect the return records and store the pair if there is any
DynCollect ==
  /\ engine = "dynamic"
  /\ pc = "d_collect"
  /\ LET data == DynCollectReturns(return_elements, outbound_info)
         nfail == Cardinality(Fails(return_elements))
     IN /\ return_flights_data' = data
        /\ IF data # << >>
           THEN /\ final_data' = Append(final_data, Option(outbound_info, data))
                /\ final_idx' = Append(final_idx, i)
                /\ reports' = reports \o Copies(nfail, Report(i, "return_error"))
           ELSE /\ UNCHANGED << final_data, final_idx >>
                /\ reports' = reports \o Copies(nfail, Report(i, "return_error"))
                                      \o << Report(i, "no_returns") >>
        /\ idx_log' = Append(idx_log, Entry("revealed", Len(return_elements),
                                            Cardinality(Dups(return_elements, outbound_info)), nfail))
  /\ pc' = "d_reset"
  /\ UNCHANGED << engine, run_vars, extractor_vars, form_vars, reveal_vars, reset_vars, reset_failures, i, initial_outbound_count, outbound_element, outbound_info,
                  return_elements, caller_vars, pending_exception, found_count >>

\* what the page offers for a dismiss of the return view when the reset starts: a
\* Close control that hides the view, or none that does
CloseControls == IF LongRun THEN {"usable"} ELSE {"usable", "unusable"}

\* lines 363-372 and 374-376: reload the base URL, and once more if that raises;
\* a TimeoutError of the second reload is caught by the handler of the reveal wait
DynReset ==
  /\ engine = "dynamic"
  /\ pc = "d_reset"
  /\ \E r1 \in PageCalls :
       IF r1 = "ok"
       THEN /\ Continue
            /\ reloads' = reloads + 1
            /\ UNCHANGED << pending_exception, idx_log, reports, reset_failures >>
       ELSE \E r2 \in CallOutcomes :
              /\ reloads' = reloads + 2
              /\ CASE r2 = "ok" ->
                     /\ Continue
                     /\ UNCHANGED << pending_exception, idx_log, reports, reset_failures >>
                [] r2 = "timeout" ->
                     /\ reset_failures' = reset_failures + 1
                     /\ reports' = Append(reports, Report(i, "timeout"))
                     /\ Continue
                     /\ UNCHANGED << pending_exception, idx_log >>
                [] r2 = "error" ->
                     /\ reset_failures' = reset_failures + 1
                     /\ DynRaise("reset", TRUE)
                     /\ UNCHANGED reports
  /\ \E control \in CloseControls : close_control' = control
  /\ reveal_open' = FALSE
  /\ list_fresh' = FALSE
  /\ UNCHANGED << engine, run_vars, extractor_vars, form_vars, reveal_vars, initial_outbound_count, iteration_vars, final_data, caller_vars,
                  found_count, final_idx >>

\* variant of DynExcept: a failed recovery lets the exception go instead of `break`
DynExcept_Reraise ==
  /\ engine = "dynamic"
  /\ pc = "d_except"
  /\ \E r \in PageCalls :
       IF r = "ok"
       THEN /\ reports' = Append(reports, Report(i, "error"))
            /\ Continue
            /\ pending_exception' = "none"
            /\ UNCHANGED << outcome >>
       ELSE /\ reports' = reports \o << Report(i, "error"), Report(i, "stop") >>
            /\ pending_exception' = "recovery"
            /\ outcome' = "raised"
            /\ pc' = "done"
            /\ UNCHANGED i
  /\ reloads' = reloads + 1
  /\ reveal_open' = FALSE
  /\ list_fresh' = FALSE
  /\ UNCHANGED close_control
  /\ UNCHANGED << engine, run_vars, extractor_vars, form_vars, reveal_vars, reset_failures, initial_outbound_count, iteration_vars, final_data, result,
                  browser_closed, playwright_stopped, found_count, final_idx, idx_log >>

\* lines 378-388: report the error, reload and go on, or stop if the reload raises
DynExcept ==
  /\ engine = "dynamic"
  /\ pc = "d_except"
  /\ \E r \in PageCalls :
       IF r = "ok"
       THEN /\ reports' = Append(reports, Report(i, "error"))
            /\ Continue
       ELSE /\ reports' = reports \o << Report(i, "error"), Report(i, "stop") >>
            /\ pc' = "d_return"
            /\ UNCHANGED i
  /\ pending_exception' = "none"
  /\ reloads' = reloads + 1
  /\ reveal_open' = FALSE
  /\ list_fresh' = FALSE
  /\ UNCHANGED close_control
  /\ UNCHANGED << engine, run_vars, extractor_vars, form_vars, reveal_vars, reset_failures, initial_outbound_count, iteration_vars, final_data, caller_vars,
                  found_count, final_idx, idx_log >>

\* lines 390-391: return final_data
DynReturn ==
  /\ engine = "dynamic"
  /\ pc = "d_return"
  /\ result' = final_data
  /\ outcome' = "returned"
  /\ pc' = "done"
  /\ UNCHANGED << engine, run_vars, extractor_vars, form_vars, reveal_vars, reset_vars, reset_failures, i, initial_outbound_count, iteration_vars, final_data, browser_closed,
                  playwright_stopped,
                  pending_exception, found_count, final_idx, idx_log, reports >>

\* lines 393-395: except Exception: return final_data
DynOuterExcept ==
  /\ engine = "dynamic"
  /\ pc = "d_outer_except"
  /\ reports' = Append(reports, Report(NoIndex, "fatal"))
  /\ pending_exception' = "none"
  /\ result' = final_data
  /\ outcome' = "returned"
  /\ pc' = "done"
  /\ UNCHANGED << engine, run_vars, extractor_vars, form_vars, reveal_vars, reset_vars, reset_failures, i, initial_outbound_count, iteration_vars, final_data, browser_closed,
                  playwright_stopped,
                  found_count, final_idx, idx_log >>

NextDyn ==
  \/ RunSetup
  \/ RunFormFill
  \/ RunFinally
  \/ DynInitialWait
  \/ DynFor
  \/ DynIter
  \/ DynCapture
  \/ DynClick
  \/ DynWaitReveal
  \/ DynQueryReturns
  \/ DynCollect
  \/ DynReset
  \/ DynExcept
  \/ DynReturn
  \/ DynOuterExcept

InitDyn == Init /\ engine = "dynamic"

SpecDyn == InitDyn /\ [][NextDyn]_vars

(***************************************************************************)
(* scrape_round_trip_data (flight_scraper_proxy.py).  The function has no  *)
(* except clause of its own: an exception raised outside the two inner     *)
(* try blocks runs the finally block and reaches the caller.               *)
(***************************************************************************)
\* an exception leaves the try block of the function
ProxyRaise(call) ==
  /\ pending_exception' = call
  /\ pc' = "p_finally"
  /\ UNCHANGED i

\* line 197: playwright, browser, page = await setup_browser(), before the try
ProxySetup ==
  /\ engine = "proxy"
  /\ pc = "setup"
  /\ \E s \in SetupOutcomes :
       /\ playwright_started' = setup_browser(s).started
       /\ browser_launched' = setup_browser(s).launched
       /\ IF s = "ok"
          THEN /\ pc' = "start"
               /\ UNCHANGED << pending_exception, outcome >>
          ELSE /\ pc' = "done"
               /\ pending_exception' = "setup"
               /\ outcome' = "raised"
  /\ UNCHANGED << engine, extractor_vars, form_vars, engine_vars, result, browser_closed, playwright_stopped >>

\* lines 200-210: load the URL, wait for the outbound list, take the list
ProxyOpen ==
  /\ engine = "proxy"
  /\ pc = "start"
  /\ \E w \in CallOutcomes, n \in 0..MaxOut :
       IF w = "ok"
       THEN /\ found_count' = n
            /\ initial_outbound_count' = n
            /\ pc' = "p_for"
            /\ list_fresh' = TRUE
            /\ UNCHANGED << i, pending_exception >>
       ELSE /\ ProxyRaise("open")
            /\ UNCHANGED << found_count, initial_outbound_count, list_fresh >>
  /\ UNCHANGED << engine, run_vars, extractor_vars, form_vars, reveal_vars, reloads, reveal_open, close_control, reset_failures, iteration_vars, final_data, caller_vars, final_idx, idx_log, reports >>

\* line 213: for i in range(len(outbound_flights)); the locals of the loop body
\* are cleared as in DynFor
ProxyFor ==
  /\ engine = "proxy"
  /\ pc = "p_for"
  /\ pc' = IF i < initial_outbound_count THEN "p_iter" ELSE "p_return"
  /\ outbound_element' = NoElement
  /\ outbound_info' = NoInfo
  /\ return_elements' = << >>
  /\ return_flights_data' = << >>
  /\ reloads' = 0
  /\ close_control' = "n/a"
  /\ activations' = << >>
  /\ grown' = FALSE
  /\ UNCHANGED << reveal_open, list_fresh >>
  /\ UNCHANGED << engine, run_vars, extractor_vars, form_vars, reset_failures, i, initial_outbound_count, final_data, caller_vars,
                  pending_exception, found_count, final_idx, idx_log, reports >>

\* `continue` of the proxy loop
ProxyContinue ==
  /\ i' = i + 1
  /\ pc' = "p_for"

\* lines 215-222: the fresh list and the range check
ProxyIter ==
  /\ engine = "proxy"
  /\ pc = "p_iter"
  /\ \E q \in {"ok", "error"}, n \in 0..MaxOut, e \in OutElems :
       IF q # "ok"
       THEN /\ ProxyRaise("list_query")
            /\ idx_log' = Append(idx_log, Entry("error", 0, 0, 0))
            /\ list_fresh' = FALSE
            /\ UNCHANGED << outbound_element, reports >>
       ELSE IF i >= n
       THEN /\ reports' = Append(reports, Report(i, "skip"))
            /\ idx_log' = Append(idx_log, Entry("skipped", 0, 0, 0))
            /\ ProxyContinue
            /\ list_fresh' = TRUE
            /\ UNCHANGED << outbound_element, pending_exception >>
       ELSE /\ outbound_element' = El(e, "outbound")
            /\ pc' = "p_capture"
            /\ list_fresh' = TRUE
            /\ UNCHANGED << i, pending_exception, idx_log, reports >>
  /\ UNCHANGED << reloads, reveal_open, close_control >>
  /\ UNCHANGED << engine, run_vars, extractor_vars, form_vars, reveal_vars, reset_failures, initial_outbound_count, outbound_info, return_elements,
                  return_flights_data, final_data, caller_vars, found_count, final_idx >>

\* lines 224-225: capture the outbound record
ProxyCapture ==
  /\ engine = "proxy"
  /\ pc = "p_capture"
  /\ LET r == scrape_flight_info(Snapshot(outbound_element.snap))
     IN IF r.raised
        THEN /\ ProxyRaise("extraction")
             /\ idx_log' = Append(idx_log, Entry("error", 0, 0, 0))
             /\ UNCHANGED outbound_info
        ELSE /\ outbound_info' = r.info
             /\ pc' = "p_click"
             /\ UNCHANGED << i, pending_exception, idx_log >>
  /\ UNCHANGED << engine, run_vars, extractor_vars, form_vars, reveal_vars, reset_vars, reset_failures, initial_outbound_count, outbound_element, return_elements,
                  return_flights_data, final_data, caller_vars, found_count, final_idx, reports >>

\* lines 227-229: outbound_element.click()
ProxyClick ==
  /\ engine = "proxy"
  /\ pc = "p_click"
  /\ \E c \in {"ok", "error"} :
       IF c = "ok"
       THEN /\ pc' = "p_wait"
            /\ reveal_open' = TRUE
            /\ UNCHANGED << i, pending_exception, idx_log >>
       ELSE /\ ProxyRaise("click")
            /\ idx_log' = Append(idx_log, Entry("error", 0, 0, 0))
            /\ UNCHANGED reveal_open
  /\ list_fresh' = FALSE
  /\ activations' = Append(activations, ClickMode)
  /\ UNCHANGED << reloads, close_control, grown >>
  /\ UNCHANGED << engine, run_vars, extractor_vars, form_vars, reset_failures, initial_outbound_count, iteration_vars, final_data, caller_vars,
                  found_count, final_idx, reports >>

\* lines 235-248: the wait for the return container; on any exception the warning,
\* the attempt to close (whose own exceptions are ignored) and `continue`
ProxyWaitReveal ==
  /\ engine = "proxy"
  /\ pc = "p_wait"
  /\ \E w \in CallOutcomes, close_button \in {"found", "none", "error"}, ck \in {"ok", "error"} :
       IF w = "ok"
       THEN /\ pc' = "p_query_returns"
            /\ UNCHANGED << i, idx_log, reports, close_control, reveal_open >>
       ELSE /\ reports' = Append(reports, Report(i, "warning"))
            /\ idx_log' = Append(idx_log, Entry(IF w = "timeout" THEN "timeout" ELSE "error", 0, 0, 0))
            /\ close_control' = IF close_button = "found" /\ ck = "ok" THEN "usable" ELSE "unusable"
            /\ reveal_open' = (close_control' = "unusable")
            /\ ProxyContinue
  /\ UNCHANGED << reloads, list_fresh >>
  /\ UNCHANGED << engine, run_vars, extractor_vars, form_vars, reveal_vars, reset_failures, initial_outbound_count, iteration_vars, final_data, caller_vars,
                  pending_exception, found_count, final_idx >>

\* lines 250-252: the flight elements inside the return container
ProxyQueryReturns ==
  /\ engine = "proxy"
  /\ pc = "p_query_returns"
  /\ \E q \in {"ok", "error"}, inner \in RetLists :
       IF q # "ok"
       THEN /\ ProxyRaise("returns_query")
            /\ idx_log' = Append(idx_log, Entry("error", 0, 0, 0))
            /\ UNCHANGED return_elements
       ELSE /\ return_elements' = Handles(inner, "return")
            /\ pc' = "p_collect"
            /\ UNCHANGED << i, pending_exception, idx_log >>
  /\ UNCHANGED << engine, run_vars, extractor_vars, form_vars, reveal_vars, reset_vars, reset_failures, initial_outbound_count, outbound_element, outbound_info,
                  return_flights_data, final_data, caller_vars, found_count, final_idx, reports >>

\* lines 253-257: the loop over the return elements, every record is appended
RECURSIVE ProxyCollectReturns(_, _)
ProxyCollectReturns(els, out_info) ==
  IF els = << >> THEN << >>
  ELSE << scrape_flight_info(Snapshot(Head(els).snap)).info >>
         \o ProxyCollectReturns(Tail(els), out_info)

\* lines 253-265: collect the return records and store the pair
ProxyCollect ==
  /\ engine = "proxy"
  /\ pc = "p_collect"
  /\ IF Fails(return_elements) # {}
     THEN /\ ProxyRaise("extraction")
          /\ idx_log' = Append(idx_log, Entry("error", 0, 0, 0))
          /\ UNCHANGED << return_flights_data, final_data, final_idx >>
     ELSE /\ return_flights_data' = ProxyCollectReturns(return_elements, outbound_info)
          /\ final_data' = Append(final_data, Option(outbound_info, return_flights_data'))
          /\ final_idx' = Append(final_idx, i)
          /\ idx_log' = Append(idx_log, Entry("revealed", Len(return_elements),
                                              Cardinality(Dups(return_elements, outbound_info)), 0))
          /\ pc' = "p_reset"
          /\ UNCHANGED << i, pending_exception >>
  /\ UNCHANGED << engine, run_vars, extractor_vars, form_vars, reveal_vars, reset_vars, reset_failures, initial_outbound_count, outbound_element, outbound_info,
                  return_elements, caller_vars, found_count, reports >>

\* whether the try block of the reset (lines 268-276) completes
ProxyDismissed(close_button, ck, hidden, r1) ==
  CASE close_button = "found" -> ck = "ok" /\ hidden = "ok"
    [] close_button = "none"  -> r1 = "ok"
    [] close_button = "error" -> FALSE

\* lines 273-275: the page.goto of the branch taken when there is no Close button
ProxyFallbackReloads(close_button) == IF close_button = "none" THEN 1 ELSE 0

\* lines 267-280: close the return view, or reload; on any exception a full reload
ProxyReset ==
  /\ engine = "proxy"
  /\ pc = "p_reset"
  /\ \E close_button \in {"found", "none", "error"}, ck \in {"ok", "error"},
        hidden \in CallOutcomes, r1 \in CallOutcomes :
       /\ close_control' = IF close_button = "found" /\ ck = "ok" /\ hidden = "ok"
                           THEN "usable" ELSE "unusable"
       /\ IF ProxyDismissed(close_button, ck, hidden, r1)
          THEN /\ ProxyContinue
               /\ reloads' = reloads + ProxyFallbackReloads(close_button)
               /\ UNCHANGED << pending_exception, reports, reset_failures >>
          ELSE \E r2 \in CallOutcomes :
                 /\ reloads' = reloads + ProxyFallbackReloads(close_button) + 1
                 /\ IF r2 = "ok"
                    THEN /\ reports' = Append(reports, Report(i, "reset_error"))
                         /\ ProxyContinue
                         /\ UNCHANGED << pending_exception, reset_failures >>
                    ELSE /\ reports' = Append(reports, Report(i, "reset_error"))
                         /\ reset_failures' = reset_failures + 1
                         /\ ProxyRaise("reload")
  /\ reveal_open' = FALSE
  /\ list_fresh' = FALSE
  /\ UNCHANGED << engine, run_vars, extractor_vars, form_vars, reveal_vars, initial_outbound_count, iteration_vars, final_data, caller_vars,
                  found_count, final_idx, idx_log >>

\* lines 282-283: return final_data (the finally block runs before the caller gets it)
ProxyReturn ==
  /\ engine = "proxy"
  /\ pc = "p_return"
  /\ result' = final_data
  /\ pc' = "p_finally"
  /\ UNCHANGED << engine, run_vars, extractor_vars, form_vars, reveal_vars, reset_vars, reset_failures, i, initial_outbound_count, iteration_vars, final_data, outcome,
                  browser_closed, playwright_stopped, pending_exception, found_count,
                  final_idx, idx_log, reports >>

\* lines 285-287: finally: browser.close(), then playwright.stop(); an exception of
\* either replaces the return value or the exception under way
ProxyFinally ==
  /\ engine = "proxy"
  /\ pc = "p_finally"
  /\ \E close \in {"ok", "error"}, stop \in {"ok", "error"} :
       /\ browser_closed' = (close = "ok")
       /\ playwright_stopped' = (close = "ok" /\ stop = "ok")
       /\ IF close = "ok" /\ stop = "ok"
          THEN /\ outcome' = IF pending_exception = "none" THEN "returned" ELSE "raised"
               /\ UNCHANGED pending_exception
          ELSE /\ outcome' = "raised"
               /\ pending_exception' = IF close # "ok" THEN "browser_close" ELSE "playwright_stop"
  /\ pc' = "done"
  /\ UNCHANGED << engine, run_vars, extractor_vars, form_vars, reveal_vars, reset_vars, reset_failures, i, initial_outbound_count, iteration_vars, final_data, result,
                  found_count, final_idx, idx_log, reports >>

NextProxy ==
  \/ ProxySetup
  \/ ProxyOpen
  \/ ProxyFor
  \/ ProxyIter
  \/ ProxyCapture
  \/ ProxyClick
  \/ ProxyWaitReveal
  \/ ProxyQueryReturns
  \/ ProxyCollect
  \/ ProxyReset
  \/ ProxyReturn
  \/ ProxyFinally

InitProxy == Init /\ engine = "proxy"

SpecProxy == InitProxy /\ [][NextProxy]_vars

(***************************************************************************)
(* scrape_flight_info on its own: one flight element, whose eight          *)
(* sub-elements are each present with text, present with empty text,       *)
(* absent, or detached, is read MaxCalls times.                            *)
(***************************************************************************)
\* what a sub-element of the element can be
SubStates == {"text", "empty", "absent", "stale"}

\* the element whose k-th sub-element is in state shape[k]
ElementOf(shape) ==
  LET node(k) ==
        CASE shape[k] = "text"   -> FullElement[k]
          [] shape[k] = "empty"  -> Sub(FullElement[k].sel, FullElement[k].aria, "")
          [] shape[k] = "stale"  -> StaleSub(FullElement[k].sel, FullElement[k].aria)
          [] shape[k] = "absent" -> Sub("", NoAria, "")
  IN SelectSeq([k \in 1..Len(FullElement) |-> node(k)], LAMBDA u : u.sel # "")

InitExtract ==
  /\ engine = "extractor"
  /\ pc = "extract"
  /\ \E shape \in [1..Len(FullElement) -> SubStates] : flight = ElementOf(shape)
  /\ flight_before = flight
  /\ InitEngines

\* variant of ExtractCall: reading a sub-element's text takes it out of the page
ExtractCall_Consuming ==
  /\ engine = "extractor"
  /\ pc = "extract"
  /\ Len(records) < MaxCalls
  /\ LET r == scrape_flight_info(flight)
     IN IF r.raised
        THEN /\ pending_exception' = "extraction"
             /\ pc' = "done"
             /\ UNCHANGED records
        ELSE /\ records' = Append(records, r.info)
             /\ UNCHANGED << pending_exception, pc >>
  /\ flight' = [k \in 1..Len(flight) |-> [flight[k] EXCEPT !.text = ""]]
  /\ UNCHANGED << engine, run_vars, form_vars, flight_before, engine_vars, outcome, result,
                  browser_closed, playwright_stopped >>

\* one call of scrape_flight_info(flight): it returns a record or raises; the page
\* is only read
ExtractCall ==
  /\ engine = "extractor"
  /\ pc = "extract"
  /\ Len(records) < MaxCalls
  /\ LET r == scrape_flight_info(flight)
     IN IF r.raised
        THEN /\ pending_exception' = "extraction"
             /\ pc' = "done"
             /\ UNCHANGED records
        ELSE /\ records' = Append(records, r.info)
             /\ UNCHANGED << pending_exception, pc >>
  /\ UNCHANGED flight
  /\ UNCHANGED << engine, run_vars, form_vars, flight_before, engine_vars, outcome, result,
                  browser_closed, playwright_stopped >>

NextExtract == ExtractCall

SpecExtract == InitExtract /\ [][NextExtract]_vars

(***************************************************************************)
(* dynamic_form_fill (flight_scraper.py) on its own: the search form is    *)
(* opened, the two date fields are set with up to DateAttempts attempts    *)
(* each, both are verified, and the search is started.  Every page call    *)
(* can raise; the whole body is inside try / except Exception.             *)
(***************************************************************************)
\* range(3) of the two attempt loops
DateAttempts == 3

\* what a date field can hold: nothing, white space only, text
FieldValues == {"", " ", "date"}

\* str.strip() on a field value
strip(v) == IF v = " " THEN "" ELSE v

\* history entry of one attempt: what it left in the field and what input_value()
\* returned, "error" when the attempt raised before the value was read
Attempted(left, seen) == [left |-> left, seen |-> seen]

\* everything dynamic_form_fill does not touch
outside_form == << engine, run_vars, extractor_vars, engine_vars, outcome, result,
                   browser_closed, playwright_stopped, pending_exception >>

\* lines 234, 253, 258, 262: return value
FormReturn(value) ==
  /\ fill_result' = value
  /\ pc' = "f_done"

\* the loop over a field is over (break, or range(3) exhausted): the return field
\* follows the departure field, the verification follows the return field
FormNextField ==
  IF field = "Departure"
  THEN /\ field' = "Return"
       /\ attempt' = 0
       /\ pc' = "f_enter"
  ELSE /\ pc' = "f_verify"
       /\ UNCHANGED << field, attempt >>

\* lines 162, 186-189 (196, 220-223): the attempt ended without break
FormNextAttempt ==
  IF attempt + 1 < DateAttempts
  THEN /\ attempt' = attempt + 1
       /\ pc' = "f_enter"
       /\ UNCHANGED field
  ELSE FormNextField

\* lines 101-155: navigation, passengers, the two locations; an exception of any of
\* them that an inner handler does not absorb ends the function at line 260
FormOpen ==
  /\ pc = "f_open"
  /\ \E r \in {"ok", "error"} :
       IF r = "ok"
       THEN /\ pc' = "f_enter"
            /\ field' = "Departure"
            /\ attempt' = 0
            /\ UNCHANGED fill_result
       ELSE /\ FormReturn("False")
            /\ UNCHANGED << field, attempt >>
  /\ UNCHANGED << outside_form, field_value, field_log, typings, search_clicked >>

\* lines 164-171 (198-205): click the field, clear it, type the date.  The page
\* accepts the text, or leaves the field empty or blank; a call that raises ends
\* the attempt in the handler of line 186 (220)
FormEnter ==
  /\ pc = "f_enter"
  /\ \E step \in {"ok", "before_type", "type"}, v \in FieldValues :
       CASE step = "before_type" ->
              /\ v = field_value[field]
              /\ field_log' = [field_log EXCEPT ![field] = Append(@, Attempted(v, "error"))]
              /\ FormNextAttempt
              /\ UNCHANGED << field_value, typings >>
         [] step = "type" ->
              /\ v \in {"", "date"}
              /\ field_value' = [field_value EXCEPT ![field] = v]
              /\ typings' = [typings EXCEPT ![field] = @ + 1]
              /\ field_log' = [field_log EXCEPT ![field] = Append(@, Attempted(v, "error"))]
              /\ FormNextAttempt
         [] step = "ok" ->
              /\ field_value' = [field_value EXCEPT ![field] = v]
              /\ typings' = [typings EXCEPT ![field] = @ + 1]
              /\ pc' = "f_read"
              /\ UNCHANGED << field, attempt, field_log >>
  /\ UNCHANGED << outside_form, search_clicked, fill_result >>

\* variant of FormRead: a value that was read back non-blank does not end the loop
FormRead_NoBreak ==
  /\ pc = "f_read"
  /\ \E r \in {"ok", "error"} :
       LET cur == field_value[field]
       IN IF r = "error"
          THEN /\ field_log' = [field_log EXCEPT ![field] = Append(@, Attempted(cur, "error"))]
               /\ FormNextAttempt
          ELSE /\ field_log' = [field_log EXCEPT ![field] = Append(@, Attempted(cur, cur))]
               /\ IF cur = "" /\ attempt = 2
                  THEN /\ pc' = "f_keyboard"
                       /\ UNCHANGED << field, attempt >>
                  ELSE FormNextAttempt
  /\ UNCHANGED << outside_form, field_value, typings, search_clicked, fill_result >>

\* lines 171-180 (205-214): read the field back; a value with anything but white
\* space ends the loop, an empty one leads to the next attempt, after the last
\* attempt to the keyboard method
FormRead ==
  /\ pc = "f_read"
  /\ \E r \in {"ok", "error"} :
       LET cur == field_value[field]
       IN IF r = "error"
          THEN /\ field_log' = [field_log EXCEPT ![field] = Append(@, Attempted(cur, "error"))]
               /\ FormNextAttempt
          ELSE /\ field_log' = [field_log EXCEPT ![field] = Append(@, Attempted(cur, cur))]
               /\ IF cur # "" /\ strip(cur) # ""
                  THEN FormNextField
                  ELSE IF attempt = 2
                  THEN /\ pc' = "f_keyboard"
                       /\ UNCHANGED << field, attempt >>
                  ELSE FormNextAttempt
  /\ UNCHANGED << outside_form, field_value, typings, search_clicked, fill_result >>

\* lines 181-184 (215-218): the keyboard method of the last attempt: click, select
\* all, type; it is not read back, and an exception is absorbed at line 186 (220)
FormKeyboard ==
  /\ pc = "f_keyboard"
  /\ \E step \in {"ok", "before_type", "type"}, v \in FieldValues :
       /\ CASE step = "before_type" ->
                 /\ v = field_value[field]
                 /\ UNCHANGED << field_value, typings >>
            [] step = "type" ->
                 /\ v \in {field_value[field], "date"}
                 /\ field_value' = [field_value EXCEPT ![field] = v]
                 /\ typings' = [typings EXCEPT ![field] = @ + 1]
            [] step = "ok" ->
                 /\ field_value' = [field_value EXCEPT ![field] = v]
                 /\ typings' = [typings EXCEPT ![field] = @ + 1]
       /\ FormNextField
  /\ UNCHANGED << outside_form, field_log, search_clicked, fill_result >>

\* lines 225-234: after the pause for the page's validation, which can empty a
\* field, both fields are read; an empty one ends the function with False
FormVerify ==
  /\ pc = "f_verify"
  /\ \E r \in {"ok", "error"},
        final_dep_value \in {field_value["Departure"], ""},
        final_ret_value \in {field_value["Return"], ""} :
       /\ field_value' = [field_value EXCEPT !["Departure"] = final_dep_value,
                                             !["Return"] = final_ret_value]
       /\ IF r = "error" \/ final_dep_value = "" \/ final_ret_value = ""
          THEN FormReturn("False")
          ELSE /\ pc' = "f_search"
               /\ UNCHANGED fill_result
  /\ UNCHANGED << outside_form, field, attempt, field_log, typings, search_clicked >>

\* lines 236-247: click Done, click Search, wait for the results page to settle
FormSearch ==
  /\ pc = "f_search"
  /\ \E step \in {"ok", "done", "search", "load"} :
       /\ search_clicked' = (step \in {"ok", "load"})
       /\ IF step = "ok"
          THEN /\ pc' = "f_results"
               /\ UNCHANGED fill_result
          ELSE FormReturn("False")
  /\ UNCHANGED << outside_form, field, attempt, field_value, field_log, typings >>

\* lines 249-258: True when a flight element shows up, False otherwise
FormResults ==
  /\ pc = "f_results"
  /\ \E r \in {"ok", "error"} : FormReturn(IF r = "ok" THEN "True" ELSE "False")
  /\ UNCHANGED << outside_form, field, attempt, field_value, field_log, typings, search_clicked >>

NextForm ==
  \/ FormOpen
  \/ FormEnter
  \/ FormRead
  \/ FormKeyboard
  \/ FormVerify
  \/ FormSearch
  \/ FormResults

InitForm ==
  /\ engine = "form"
  /\ pc = "f_open"
  /\ flight = << >>
  /\ flight_before = << >>
  /\ InitEngines

SpecForm == InitForm /\ [][NextForm]_vars

Next == NextDyn \/ NextProxy

Spec == Init /\ [][Next]_vars

\* every call to the page returns, raises or times out (each Playwright wait has a
\* timeout, its own or the default one), so a run always takes its next step
\* the steps of both engines, on outbound lists of at most LiveMaxOut candidates
NextLive ==
  \/ RunSetup
  \/ RunFormFill
  \/ RunFinally
  \/ (DynInitialWait /\ found_count' <= LiveMaxOut)
  \/ DynFor
  \/ DynIter
  \/ DynCapture
  \/ DynClick
  \/ DynWaitReveal
  \/ DynQueryReturns
  \/ DynCollect
  \/ DynReset
  \/ DynExcept
  \/ DynReturn
  \/ DynOuterExcept
  \/ ProxySetup
  \/ (ProxyOpen /\ found_count' <= LiveMaxOut)
  \/ ProxyFor
  \/ ProxyIter
  \/ ProxyCapture
  \/ ProxyClick
  \/ ProxyWaitReveal
  \/ ProxyQueryReturns
  \/ ProxyCollect
  \/ ProxyReset
  \/ ProxyReturn
  \/ ProxyFinally

SpecLive == Init /\ [][NextLive]_vars /\ WF_vars(NextLive)

(***************************************************************************)
(* Properties.                                                             *)
(***************************************************************************)
Last(seq) == seq[Len(seq)]

Range(seq) == { seq[k] : k \in 1..Len(seq) }

\* the indices (1-based positions of idx_log) whose reveal wait timed out
TimedOut == { k \in 1..Len(idx_log) : idx_log[k].kind = "timeout" }

\* the number of records a revealed index has left after de-duplication
KeptCount(entry) == entry.revealed - entry.dups - entry.fails

\* the indices whose reveal showed at least one record different from the outbound one
RevealedGood == { k \in 1..Len(idx_log) :
                    idx_log[k].kind = "revealed" /\ KeptCount(idx_log[k]) >= 1 }

\* the indices whose reveal left no return record
RevealedNothing == { k \in 1..Len(idx_log) :
                       idx_log[k].kind = "revealed" /\ KeptCount(idx_log[k]) = 0 }

AllNonEmpty(data) == \A k \in 1..Len(data) : data[k].ReturnFlights # << >>

NoOutboundAmongReturns(data) ==
  \A k \in 1..Len(data) :
    \A m \in 1..Len(data[k].ReturnFlights) :
      \E key \in Keys : data[k].ReturnFlights[m][key] # data[k].OutboundFlight[key]

\* every index the loop has gone through has exactly one history entry
LogAligned == Len(idx_log) \in {i, i + 1}

\* C1: in the dynamic engine every accumulated option, and every option of the
\* returned list, has a non-empty ReturnFlights; an index whose reveal leaves no
\* record after de-duplication has no option.
C1_DynReturnsNonEmpty ==
  /\ AllNonEmpty(final_data)
  /\ outcome = "returned" => AllNonEmpty(result)
  /\ \A k \in RevealedNothing : (k - 1) \notin Range(final_idx)

\* C1 witness: a reveal showed elements, all of them dropped, and nothing was
\* appended for it while another index has its option
C1_Witness ==
  /\ engine = "dynamic"
  /\ final_data # << >>
  /\ \E k \in RevealedNothing : idx_log[k].revealed > 0 /\ idx_log[k].dups > 0

\* C2: in the proxy engine every option of the result has a non-empty ReturnFlights
C2_ProxyReturnsNonEmpty ==
  /\ AllNonEmpty(final_data)
  /\ outcome = "returned" => AllNonEmpty(result)

\* the records, in order, of the elements of els that can be read and differ from out_info
KeptRecords(els, out_info) ==
  LET got == [k \in 1..Len(els) |-> scrape_flight_info(Snapshot(els[k].snap))]
      ok == SelectSeq(got, LAMBDA r : ~r.raised /\ (\E key \in Keys : r.info[key] # out_info[key]))
  IN [k \in 1..Len(ok) |-> ok[k].info]

\* C3: in the dynamic engine no record of ReturnFlights equals the option's outbound
\* record in all eight fields, and every revealed record that differs is kept: the
\* option holds exactly the differing records, in order.
C3_DynDedup ==
  /\ NoOutboundAmongReturns(final_data)
  /\ \A k \in 1..Len(final_data) :
       Len(final_data[k].ReturnFlights) = KeptCount(idx_log[final_idx[k] + 1])
  /\ (pc = "d_reset" /\ KeptRecords(return_elements, outbound_info) # << >>) =>
       /\ final_data # << >>
       /\ Last(final_data) = Option(outbound_info, KeptRecords(return_elements, outbound_info))

\* C3 witness: an option was appended from a reveal that showed a duplicate of the
\* outbound record next to a differing record
C3_Witness ==
  /\ engine = "dynamic"
  /\ pc = "d_reset"
  /\ Dups(return_elements, outbound_info) # {}
  /\ final_data # << >>
  /\ Last(final_idx) = i
  /\ Len(Last(final_data).ReturnFlights) >= 1

\* C4: in the proxy engine a revealed record identical to the outbound record is
\* not in ReturnFlights
C4_ProxyDedup == NoOutboundAmongReturns(final_data)

\* the loop went through its whole range, and every index it went through either
\* timed out or revealed a record different from its outbound record
PartialFailureRun ==
  /\ Len(idx_log) = initial_outbound_count
  /\ \A k \in 1..Len(idx_log) : k \in TimedOut \/ k \in RevealedGood

\* C5 as stated: a run of the dynamic engine over N candidates in which the reveal
\* times out for a subset S and every other index reveals a record different from its
\* outbound record returns exactly N - |S| options, and no exception escapes.
C5_DynPartialFailure ==
  /\ outcome # "raised"
  /\ (pc = "done" /\ PartialFailureRun) =>
       /\ outcome = "returned"
       /\ Len(result) = found_count - Cardinality(TimedOut)

\* C5 amended: the engine goes through the first min(N, 15) candidates only; such a
\* run returns exactly min(N, 15) - |S| options, and no exception escapes.
C5_DynPartialFailureCapped ==
  /\ outcome # "raised"
  /\ (pc = "done" /\ PartialFailureRun) =>
       /\ outcome = "returned"
       /\ Len(result) = Min(found_count, OutboundLimit) - Cardinality(TimedOut)

\* C5 witness: such a run has ended, with a timed-out index and a good one
C5_Witness ==
  /\ engine = "dynamic"
  /\ pc = "done"
  /\ PartialFailureRun
  /\ TimedOut # {}
  /\ RevealedGood # {}

\* the scenario: 3 candidates, the second times out, the first reveals two differing
\* records, the third a differing record and a duplicate of its outbound record, and
\* every reset restores the outbound list
Scenario ==
  /\ found_count = 3
  /\ idx_log = << Entry("revealed", 2, 0, 0), Entry("timeout", 0, 0, 0), Entry("revealed", 2, 1, 0) >>
  /\ reset_failures = 0

StrictlyAscending(seq) == \A a, b \in 1..Len(seq) : a < b => seq[a] < seq[b]

\* the indices that were skipped, failed, timed out or revealed no record
NoContribution ==
  { k \in 1..Len(idx_log) : idx_log[k].kind \in {"skipped", "timeout", "error"} } \cup RevealedNothing

\* C7: in both engines the result is in strictly ascending index order, one option
\* per index at most, and an index that was skipped, timed out or produced no
\* returns has no entry.
C7_AscendingNoPlaceholder ==
  /\ Len(final_idx) = Len(final_data)
  /\ StrictlyAscending(final_idx)
  /\ \A k \in NoContribution : (k - 1) \notin Range(final_idx)

\* C8: no exception escapes the dynamic engine, and the list it returns is the
\* accumulated one, with every option that was appended.
C8_DynYieldsAccumulated ==
  /\ outcome # "raised"
  /\ pc = "done" =>
       /\ outcome = "returned"
       /\ result = final_data
       /\ Len(result) = Len(final_idx)

\* C8 witness: the run was stopped by a failed recovery after an option was appended
C8_Witness ==
  /\ engine = "dynamic"
  /\ pc = "done"
  /\ result # << >>
  /\ \E k \in 1..Len(reports) : reports[k].kind = "stop"

\* the calls of the enumeration whose failure the claim names
EnumerationCalls == {"click", "extraction", "list_query", "returns_query", "reload"}

\* C9: when the proxy engine stops early because a call of the enumeration failed,
\* the caller still receives the options appended so far.
C9_ProxyYieldsAccumulated ==
  (pc = "done" /\ pending_exception \in EnumerationCalls /\ final_data # << >>) =>
    /\ outcome = "returned"
    /\ result = final_data

\* C10: in the proxy engine a reveal timeout, a click error or an extraction error
\* on one index does not abort the run: every index of the loop is gone through.
C10_ProxyIndexFailureContinues ==
  (pc = "done" /\ pending_exception \in {"none", "click", "extraction"}) =>
    Len(idx_log) = initial_outbound_count

\* the positions at which the dynamic engine is processing an index
DynProcessing == {"d_iter", "d_capture", "d_click", "d_wait", "d_query_returns", "d_collect", "d_reset"}

\* C11: in the dynamic engine, once a reset has failed in both of its reloads no
\* later index is processed, and the run ends by returning the accumulated options.
C11_DynResetFailureAborts ==
  /\ (engine = "dynamic" /\ reset_failures > 0) => pc \notin DynProcessing
  /\ (engine = "dynamic" /\ reset_failures > 0 /\ pc = "done") => result = final_data

\* the run has left the function that acquired the handles
Exited == pc = "exited" \/ (engine = "proxy" /\ pc = "done")

\* C12: on every exit path of a run every acquired handle is released: a launched
\* browser is closed and a started driver is stopped, unless it is the release call
\* itself that raised.
C12_HandlesReleased ==
  Exited =>
    /\ browser_launched => (browser_closed \/ pending_exception = "browser_close")
    /\ playwright_started => (playwright_stopped \/ pending_exception = "playwright_stop")

\* C13: every record scrape_flight_info returns has exactly the eight keys and no
\* value is the empty string (each is non-empty text or "N/A").
C13_EightKeysNonEmpty ==
  \A n \in 1..Len(records) :
    /\ DOMAIN records[n] = Keys
    /\ \A key \in Keys : records[n][key] # ""

CarriesIndex(kind) == kind \in {"skip", "error", "warning"}

\* the messages that report the failure of an index
FailureKinds == {"timeout", "error", "warning"}

\* the indices (positions of idx_log) whose reveal timed out or whose processing raised
FailedIndices == { k \in 1..Len(idx_log) : idx_log[k].kind \in {"timeout", "error"} }

\* the indices that appended an option and were reset without a failure
SucceededIndices ==
  { k \in 1..Len(idx_log) : reset_failures = 0 /\ idx_log[k].kind = "revealed" /\ (k - 1) \in Range(final_idx) }

\* C14: once the next index has started or the run is over, every index that timed
\* out or raised has a failure report that carries its index, and an index that
\* succeeded has no failure report.
C14_FailuresReported ==
  /\ \A k \in FailedIndices :
       (i >= k \/ pc \in {"done", "exited"}) =>
         \E n \in 1..Len(reports) :
           /\ reports[n].idx = k - 1
           /\ reports[n].kind \in FailureKinds
           /\ CarriesIndex(reports[n].kind)
  /\ \A k \in SucceededIndices :
       \A n \in 1..Len(reports) : reports[n].idx = k - 1 => reports[n].kind \notin FailureKinds

\* C16: in the dynamic engine the candidate list is never queried for an index while
\* the reveal click of an earlier index has not been followed by a reload of the
\* base URL, whether that reveal succeeded or timed out.
C16_DynResetBeforeNextQuery ==
  engine = "dynamic" => ~(list_fresh /\ reveal_open)

\* C17: in the proxy engine, when an index's reveal attempt is over and the return
\* view could not be dismissed (no Close control, a failing click on it, or the
\* container not hidden in time), a full reload was issued before the next index.
C17_ProxyReloadIsSafetyNet ==
  (engine = "proxy" /\ pc = "p_for" /\ close_control = "unusable") => reloads >= 1

\* C18: in both engines at most one page.goto to the search-result URL is issued
\* while one index is processed.
C18_AtMostOneReload == reloads <= 1

\* C19: in the dynamic engine an index whose return view can be dismissed causes no
\* reload.
C19_DynReloadOnlyWhenNeeded ==
  (engine = "dynamic" /\ pc = "d_for" /\ close_control = "usable") => reloads = 0

\* the positions at which the engines use the element taken from the candidate list
UsesOutboundElement == {"d_capture", "d_click", "p_capture", "p_click"}

\* the indices (positions of idx_log) that were out of range of the fresh list
Skipped == { k \in 1..Len(idx_log) : idx_log[k].kind = "skipped" }

\* C20: in both engines the element an index works on comes from a list queried
\* after the last click or reload, and an index out of range of that list is
\* skipped: no click is issued for it, it appends no option, and the loop goes on
\* to the next index.
C20_FreshListAndSkip ==
  /\ pc \in UsesOutboundElement => list_fresh
  /\ \A k \in Skipped : (k - 1) \notin Range(final_idx)
  /\ (pc \in {"d_for", "p_for"} /\ Len(idx_log) = i /\ i \in Skipped) =>
       /\ list_fresh
       /\ pending_exception = "none"
       /\ outcome = "running"

\* C20 witness: after an index that revealed its returns and was reset, the next
\* index was out of range and skipped, and the index after that is being processed
C20_Witness ==
  /\ pc \in UsesOutboundElement
  /\ \E k \in Skipped : k > 1 /\ idx_log[k - 1].kind = "revealed" /\ i = k

\* what the element taken from the fresh list reads as before it is clicked
PreClickRecord == scrape_flight_info(Snapshot(outbound_element.snap)).info

\* the positions of an index from the click on
FromClickOn == {"d_click", "d_wait", "d_query_returns", "d_collect", "d_reset",
                "p_click", "p_wait", "p_query_returns", "p_collect", "p_reset"}

\* C21: in both engines, when the reveal click is issued the outbound record has
\* already been captured from the element, it stays as captured for the rest of
\* the index, and the option appended for the index stores exactly that record.
C21_CaptureBeforeClick ==
  /\ pc \in FromClickOn =>
       /\ outbound_info # NoInfo
       /\ outbound_info = PreClickRecord
  /\ (pc \in {"d_reset", "p_reset"} /\ final_idx # << >> /\ Last(final_idx) = i) =>
       Last(final_data).OutboundFlight = PreClickRecord
  /\ \A k \in 1..Len(final_data) : final_data[k].OutboundFlight # NoInfo

\* C21 witness: the option of a second index has just been appended after its click
C21_Witness ==
  /\ pc \in {"d_reset", "p_reset"}
  /\ i >= 1
  /\ activations # << >>
  /\ final_idx # << >>
  /\ Last(final_idx) = i

\* the dynamic engine has returned to its caller
DynTerminal == engine = "dynamic" /\ outcome = "returned"

\* the run was ended by a failure the engine does not recover from: a reload of
\* the error handler that raised, or an exception outside the loop body
Unrecoverable == \E n \in 1..Len(reports) : reports[n].kind \in {"stop", "fatal"}

\* C22 as stated: the dynamic engine ends only after the index has gone through
\* every candidate of the list found at the start, or after an unrecoverable failure.
C22_DynThroughEveryCandidate ==
  DynTerminal => \/ (i = found_count /\ Len(idx_log) = found_count)
                 \/ Unrecoverable

\* C22 amended: the dynamic engine ends only after the index has gone through the
\* first min(N, 15) candidates of the list found at the start, or after an
\* unrecoverable failure.
C22_DynThroughFirstCandidates ==
  DynTerminal => \/ (i = Min(found_count, OutboundLimit) /\ Len(idx_log) = Min(found_count, OutboundLimit))
                 \/ Unrecoverable

\* C22 witness: a failure-free run over a list longer than the limit has ended
C22_Witness ==
  /\ DynTerminal
  /\ found_count > OutboundLimit
  /\ ~Unrecoverable
  /\ \A k \in 1..Len(idx_log) : idx_log[k].kind = "revealed"

\* C23: every run of either engine terminates: once the engine has started it
\* reaches its end, the index only moves forward by one, and it never passes the
\* candidate count taken at the start.
C23_Terminates ==
  /\ (pc = "start") ~> (pc = "done")
  /\ [][i' \in {i, i + 1}]_vars
  /\ [](i <= initial_outbound_count)

\* C23 witness: a run has ended after going through all its indices, one of which
\* timed out
C23_Witness ==
  /\ pc = "done"
  /\ initial_outbound_count >= 2
  /\ i = initial_outbound_count
  /\ TimedOut # {}

\* an index has just been treated as a reveal timeout
JustTimedOut ==
  /\ pc \in {"d_for", "p_for"}
  /\ i >= 1
  /\ Len(idx_log) = i
  /\ idx_log[i].kind = "timeout"

\* C24: in both engines the first click on an index's element is a plain one, and
\* an index is treated as a reveal timeout only after a plain and then a forced click.
C24_PlainThenForced ==
  /\ activations # << >> => activations[1] = "plain"
  /\ JustTimedOut => activations = << "plain", "forced" >>

\* C25: in the dynamic engine, when the wait for the return container times out on
\* a page whose flight elements have grown beyond the known outbound count, the
\* index is not failed: its reveal counts as successful.
C25_DynCountSignalAccepted ==
  (engine = "dynamic" /\ pc = "d_for" /\ grown) => idx_log[i].kind = "revealed"

IsPrefix(a, b) == Len(a) <= Len(b) /\ SubSeq(b, 1, Len(a)) = a

\* the return elements of the current index that the engine leaves out: in the
\* dynamic engine the unreadable ones and the duplicates of the outbound record
LeftOut ==
  IF engine = "dynamic"
  THEN Fails(return_elements) \cup Dups(return_elements, outbound_info)
  ELSE {}

\* C26: in both engines every step leaves the accumulated result as a prefix of the
\* new one, and a step that changes it appends one option, at the end of the
\* capture of the index, holding the records of all its return elements.
C26_AppendOnly ==
  [][ /\ IsPrefix(final_data, final_data')
      /\ final_data' # final_data =>
           /\ pc \in {"d_collect", "p_collect"}
           /\ final_data' = Append(final_data, Option(outbound_info, return_flights_data'))
           /\ Len(return_flights_data') = Len(return_elements) - Cardinality(LeftOut) ]_vars

\* C26 witness: a second option was appended after the first
C26_Witness ==
  /\ Len(final_data) >= 2
  /\ pc \in {"d_reset", "p_reset"}
  /\ Last(final_idx) = i

\* C27: scrape_flight_info never fails outright: whatever the state of the eight
\* sub-elements, a call returns a record and no exception leaves it.
C27_NeverFailsOutright ==
  engine = "extractor" => pending_exception = "none"

\* the sub-elements of the element under extraction that field k selects
Matching(k) ==
  { n \in 1..Len(flight) :
      /\ flight[n].sel = FieldSpec[k].selector
      /\ FieldSpec[k].aria_label # NoAria => flight[n].aria = FieldSpec[k].aria_label }

FirstOf(S) == CHOOSE n \in S : \A m \in S : n <= m

\* C28: in every record returned for an element, a field is "N/A" exactly when no
\* sub-element matches its selector and aria-label hint, and is the text of the
\* first matching sub-element otherwise, whatever the other fields found; the
\* extraction is abandoned only when a sub-element that matched cannot be read,
\* never because of a miss.
C28_SentinelExactlyOnMiss ==
  engine = "extractor" =>
    /\ \A n \in 1..Len(records) : \A k \in 1..Len(FieldSpec) :
         /\ records[n][FieldSpec[k].key] = SENTINEL <=> Matching(k) = {}
         /\ Matching(k) # {} =>
              records[n][FieldSpec[k].key] = flight[FirstOf(Matching(k))].text
    /\ pending_exception = "extraction" =>
         \E k \in 1..Len(FieldSpec) : Matching(k) # {} /\ flight[FirstOf(Matching(k))].stale

\* C28 witness: the departure-time span is missing while the arrival-time span, the
\* only element left for the selector "span", is there; the record has "N/A" for
\* the first and the page's text for the fields after it
C28_Witness ==
  /\ engine = "extractor"
  /\ Len(records) >= 1
  /\ Matching(1) = {}
  /\ records[1]["Departure Time"] = SENTINEL
  /\ records[1]["Arrival Time"] = "1:05 PM"
  /\ records[1]["Price"] = "$412"

\* the elements of els that the page serves as return flights
ReturnOnly(els) == SelectSeq(els, LAMBDA e : e.origin = "return")

\* C29: in the dynamic engine the return records collected for an index come from
\* return elements only: when the returns are taken by the fallback, no element of
\* the outbound list is among the elements whose record is captured, whatever the
\* number of outbound candidates on the page.
C29_DynFallbackSkipsOutbound ==
  (engine = "dynamic" /\ pc = "d_reset") =>
    return_flights_data = KeptRecords(ReturnOnly(return_elements), outbound_info)

\* the run got past setup_browser and is at or after the finally block without the
\* engine having returned: dynamic_form_fill reported failure
FormFillFailed ==
  /\ engine = "dynamic"
  /\ pc \in {"r_finally", "exited"}
  /\ outcome = "running"
  /\ pending_exception # "setup"

\* C30: when dynamic_form_fill reports failure the engine is never invoked (no list
\* is taken, no index is gone through), no flight element is clicked, and the run
\* ends by returning the empty result with the browser closed.
C30_FormFillFailureSkipsEngine ==
  FormFillFailed =>
    /\ found_count = 0 /\ i = 0 /\ idx_log = << >> /\ reports = << >>
    /\ activations = << >> /\ ~reveal_open
    /\ final_data = << >> /\ result = << >>
    /\ pc = "exited" => (pending_exception = "none" /\ browser_closed)

\* the parts of C31 that do not depend on how an attempt is judged: at most
\* DateAttempts attempts per field; a field that is empty at the final verification
\* gives False with the Search button never clicked; the function always returns
FormFillBounded ==
  /\ \A f \in DateFields : Len(field_log[f]) <= DateAttempts
  /\ search_clicked => \A f \in DateFields : field_value[f] # ""
  /\ fill_result = "True" => search_clicked
  /\ (pc = "f_done" /\ \E f \in DateFields : field_value[f] = "") =>
       (fill_result = "False" /\ ~search_clicked)
  /\ pending_exception = "none"
  /\ pc = "f_done" <=> fill_result \in {"True", "False"}

\* C31 as stated: in dynamic_form_fill each date field gets at most 3 attempts and
\* none after the first attempt that leaves the field non-empty; an empty field at
\* the final verification gives False without a click on Search; no exception
\* escapes.
C31_DateEntryAsStated ==
  engine = "form" =>
    /\ FormFillBounded
    /\ \A f \in DateFields : \A n \in 1..(Len(field_log[f]) - 1) : field_log[f][n].left = ""

\* C31, amended: each date field gets at most 3 attempts and none after the first
\* attempt whose read-back of the field has anything but white space (an attempt
\* that raises, or reads back nothing but white space, is followed by the next
\* one whatever it left in the field); the date is typed at most once per attempt
\* plus once by the keyboard method, used only after the third attempt read back
\* empty; an empty field at the final verification gives False without a click on
\* Search; no exception escapes.
C31_DateEntry ==
  engine = "form" =>
    /\ FormFillBounded
    /\ \A f \in DateFields : \A n \in 1..(Len(field_log[f]) - 1) :
         field_log[f][n].seen \in {"error", "", " "}
    /\ \A f \in DateFields :
         /\ typings[f] <= DateAttempts + 1
         /\ typings[f] > DateAttempts =>
              (Len(field_log[f]) = DateAttempts /\ field_log[f][DateAttempts].seen \in {"", " "})

\* C31 witness: the departure field was filled by an attempt that raised before the
\* read-back and was set again by a second attempt; the return field went through
\* three attempts and the keyboard method and is empty at the verification; the
\* function returned False and Search was not clicked
C31_Witness ==
  /\ engine = "form"
  /\ pc = "f_done"
  /\ fill_result = "False"
  /\ ~search_clicked
  /\ Len(field_log["Departure"]) = 2
  /\ field_log["Departure"][1] = Attempted("date", "error")
  /\ field_log["Departure"][2].seen = "date"
  /\ Len(field_log["Return"]) = DateAttempts
  /\ typings["Return"] = DateAttempts + 1
  /\ field_value["Return"] = ""

====
